---------------------------- MODULE Spec2Model ----------------------------
(***************************************************************************)
(* Transport connection (Python/unreal_mcp_server.py, UnrealConnection     *)
(* and get_unreal_connection), orchestration loop (Python/orchestrator.py, *)
(* plan_steps and execute_steps) and command-line main (orchestrator.py)   *)
(* of the Unreal MCP bridge.                                               *)
(*                                                                         *)
(* Specifications, over disjoint groups of variables:                      *)
(*   Spec      calls on one UnrealConnection object                        *)
(*   SpecTool  the server process: get_unreal_connection, then send_command*)
(*   SpecConc  two callers inside send_command on one object               *)
(*   SpecOrch  execute_steps on an arbitrary plan (SpecOrchFair: the loop  *)
(*             keeps running)                                              *)
(*   SpecBatch execute_steps on a plan of one batch_create_assets step     *)
(*   SpecMain  main: prompt, context, plan_steps, execute_steps, summary,  *)
(*             hook, exit status                                           *)
(*                                                                         *)
(* Bytes on the wire are modelled as sequences of symbols:                 *)
(*   "1" "2"        ASCII digits (a JSON number is a run of digits)        *)
(*   " "            JSON whitespace                                        *)
(*   "q"            the double quote delimiting a JSON string              *)
(*   "a"            an ASCII character inside a string                     *)
(*   "L" "T"        lead and continuation byte of one 2-byte UTF-8 char    *)
(*   "n"            the bytes of the literal null                          *)
(*   "{" "}"        object delimiters                                      *)
(*   "key=value"    the bytes of one member of an object                   *)
(* JSON values held by Python are strings: a JSON string is itself, and    *)
(* "<null>", "<false>", "<true>", "<0>" stand for None, False, True, 0.    *)
(* A Python dict is a function from its keys to such values.               *)
(***************************************************************************)
EXTENDS Integers, Sequences, FiniteSets, TLC

\* ------------------------------------------------------------------ bounds
\* most recv() chunks the peer delivers for one response
MaxChunks == 3
\* longest plan handed to execute_steps
MaxSteps == 2
\* most liveness probes written to one connection
MaxPings == 1
\* most assets in one batch_create_assets call
MaxAssets == 2

\* ------------------------------------------------------- program constants
buffer_size == 4096
MAX_RETRIES == 2
RETRY_DELAY == 2

VARIABLES
    socket,     \* self.socket: "None", "unconnected" (created, connect failed) or "connected"
    connected,  \* self.connected
    fds,        \* OS sockets created by the object and not yet closed
    pc,         \* "idle": no call in progress; "returned": a call has just returned
    op,         \* the public operation that returned last
    env,        \* what the environment did during that call
    sent,       \* whether sendall() wrote the command during that call
    recv,       \* what receive_full_response gave back during that call
    exc,        \* message of the exception caught by send_command's handler ("" if none)
    ret,        \* the value returned to the caller
    singleton,  \* _unreal_connection is not None
    handle,     \* a tool holds the connection get_unreal_connection gave it
    wire,       \* what the TCP connection now open has carried
    closedNow,  \* what each TCP connection closed during the last call had carried
    afterFailure,  \* a tool call has failed on an unreachable peer and none got through since
    \* two callers inside send_command on one object
    cpc,        \* per caller: the statement of send_command it is at
    csock,      \* self.socket: 0 for None, else the connection it refers to
    cconnected, \* self.connected
    copen,      \* per connection: "unused", "open" or "closed" (by the client)
    creqs,      \* per connection: the callers whose command was written to it, in order
    ctaken,     \* per connection: the peer's reply has been read
    cresult,    \* per caller: "none", "own" (the reply to its command), "foreign" or "error"
    interfered, \* per caller: the socket it was using was closed or replaced by the other
    \* execute_steps
    steps,      \* the plan: a sequence of Plan Steps
    idx,        \* position of the for loop in steps (Len(steps) + 1 after the last)
    attempt,    \* the retry counter of the while loop
    results,    \* the Run Result built so far
    returned,   \* execute_steps has returned results
    tries,      \* per step: tool invocations made for it
    slept,      \* per step: seconds spent in time.sleep for it
    everyFailed,  \* per step: the tool has failed at each invocation so far
    succeededAt,  \* per step: the first invocation at which the tool succeeded (0: none)
    lastError,    \* per step: the error of the last invocation ("<null>": none)
    lastOk,       \* per step: the tool succeeded at the last invocation
    everyTransport,  \* per step: each invocation so far ended in a transport failure
    finished,     \* the steps that have an entry in results
    clarified,    \* the steps that were passed to prompt_for_ambiguity
    \* main
    variant,    \* "base": main of Python/orchestrator.py; "extended": main of orchestrator.py
    argc,       \* len(sys.argv)
    prompt,     \* sys.argv[1], a sequence of characters (<<>> when there is none)
    context,    \* what query_project_context returned
    plan,       \* <<>> before plan_steps is called, <<p>> once it has returned p
    mpc,        \* position in main: "start", "context", "execute", "hook", "exited"
    exitCode,   \* exit status of the process (-1 while it runs)
    written,    \* the summary files written, each the list handed to json.dump
    hook        \* how the guideline-ingest hook ended ("" if it did not run)

mainVars == <<variant, argc, prompt, context, plan, mpc, exitCode, written, hook>>
concVars == <<cpc, csock, cconnected, copen, creqs, ctaken, cresult, interfered>>
objVars == <<socket, connected, fds, pc, op, env, sent, recv, exc, ret,
             singleton, handle, wire, closedNow, afterFailure>>
connVars == <<objVars, concVars>>
orchVars == <<steps, idx, attempt, results, returned, tries, slept, everyFailed,
              succeededAt, lastError, lastOk, everyTransport, finished, clarified>>
vars == <<connVars, orchVars, mainVars>>

\* --------------------------------------------------------- Python helpers
EmptyDict == [k \in {} |-> ""]

\* dict.get(k): None when the key is absent
Get(d, k) == IF k \in DOMAIN d THEN d[k] ELSE "<null>"

\* dict.get(k, default)
GetDefault(d, k, default) == IF k \in DOMAIN d THEN d[k] ELSE default

\* Python truth value of a JSON value
Truthy(v) == v \notin {"<null>", "<false>", "<0>", ""}

\* a or b
PyOr(a, b) == IF Truthy(a) THEN a ELSE b

\* d[k] = v on a dict
SetItem(d, k, v) == [x \in (DOMAIN d) \cup {k} |-> IF x = k THEN v ELSE d[x]]

\* ------------------------------------------------------ bytes, UTF-8, JSON
Digits == {"1", "2"}
Whitespace == {" "}
StringChars == {"a", "u"}

MemberKey ==
    ("status=error" :> "status") @@ ("status=success" :> "status") @@
    ("success=false" :> "success") @@ ("success=true" :> "success") @@
    ("success=0" :> "success") @@
    ("error=X" :> "error") @@ ("error=" :> "error") @@ ("error=null" :> "error") @@
    ("message=M" :> "message") @@ ("message=" :> "message") @@
    ("result=R" :> "result")

MemberValue ==
    ("status=error" :> "error") @@ ("status=success" :> "success") @@
    ("success=false" :> "<false>") @@ ("success=true" :> "<true>") @@
    ("success=0" :> "<0>") @@
    ("error=X" :> "X") @@ ("error=" :> "") @@ ("error=null" :> "<null>") @@
    ("message=M" :> "M") @@ ("message=" :> "") @@
    ("result=R" :> "R")

Members == DOMAIN MemberKey

\* bytes.decode('utf-8') succeeds: every lead byte is followed by its
\* continuation byte and no continuation byte stands alone
Utf8Ok(data) ==
    \A i \in 1..Len(data) :
        /\ data[i] = "L" => (i < Len(data) /\ data[i + 1] = "T")
        /\ data[i] = "T" => (i > 1 /\ data[i - 1] = "L")

IsNotContinuation(c) == c # "T"

\* bytes.decode('utf-8'): each 2-byte sequence becomes one character "u"
Decode(data) ==
    SelectSeq([i \in 1..Len(data) |-> IF data[i] = "L" THEN "u" ELSE data[i]],
              IsNotContinuation)

\* first position at or after i whose symbol is not in S (Len(t) + 1 if none)
FirstNotIn(t, i, S) ==
    CHOOSE j \in i..(Len(t) + 1) :
        /\ (j = Len(t) + 1 \/ t[j] \notin S)
        /\ \A k \in i..(j - 1) : t[k] \in S

\* position just after the JSON value that starts at i, 0 if there is none
ValueEnd(t, i) ==
    IF i > Len(t) THEN 0
    ELSE IF t[i] \in Digits THEN FirstNotIn(t, i, Digits)
    ELSE IF t[i] = "n" THEN i + 1
    ELSE IF t[i] = "q" THEN
        LET j == FirstNotIn(t, i + 1, StringChars)
        IN IF j <= Len(t) /\ t[j] = "q" THEN j + 1 ELSE 0
    ELSE IF t[i] = "{" THEN
        LET j == FirstNotIn(t, i + 1, Members)
        IN IF j <= Len(t) /\ t[j] = "}" THEN j + 1 ELSE 0
    ELSE 0

\* the dict built from the members t[lo..hi]; a repeated key keeps its last value
ObjectOf(t, lo, hi) ==
    LET keys == {MemberKey[t[k]] : k \in lo..hi}
        last(key) == CHOOSE k \in lo..hi :
                        /\ MemberKey[t[k]] = key
                        /\ \A m \in (k + 1)..hi : MemberKey[t[m]] # key
    IN [key \in keys |-> MemberValue[t[last(key)]]]

\* json.loads(text): ok is FALSE for JSONDecodeError (no value, an incomplete
\* value, or extra data after the value); type is the Python type of the result
JsonLoads(t) ==
    LET i == FirstNotIn(t, 1, Whitespace)
        e == ValueEnd(t, i)
        ok == e # 0 /\ FirstNotIn(t, e, Whitespace) = Len(t) + 1
    IN IF ~ok THEN [ok |-> FALSE, type |-> "", obj |-> EmptyDict]
       ELSE IF t[i] = "{" THEN [ok |-> TRUE, type |-> "dict", obj |-> ObjectOf(t, i + 1, e - 2)]
       ELSE IF t[i] = "q" THEN [ok |-> TRUE, type |-> "str", obj |-> EmptyDict]
       ELSE IF t[i] = "n" THEN [ok |-> TRUE, type |-> "NoneType", obj |-> EmptyDict]
       ELSE [ok |-> TRUE, type |-> "int", obj |-> EmptyDict]

\* b''.join(chunks[:n])
RECURSIVE Join(_, _)
Join(chunks, n) == IF n = 0 THEN <<>> ELSE Join(chunks, n - 1) \o chunks[n]


\* ------------------------------------------------------------ the peer
\* streams of bytes an engine peer may write on one connection: every object
\* over the keys the client inspects (each key absent or holding one of the
\* values the client distinguishes), and streams that are not one JSON object
PeerObjects ==
    { <<"{">> \o st \o su \o er \o me \o re \o <<"}">> :
        st \in {<<>>, <<"status=error">>, <<"status=success">>},
        su \in {<<>>, <<"success=false">>, <<"success=true">>, <<"success=0">>},
        er \in {<<>>, <<"error=X">>, <<"error=">>, <<"error=null">>},
        me \in {<<>>, <<"message=M">>, <<"message=">>},
        re \in {<<>>, <<"result=R">>} }

OtherStreams ==
    { <<>>,                                  \* nothing at all
      <<"1">>, <<"1", "2">>,                 \* a top-level number
      <<"n">>,                               \* null
      <<"q", "a", "q">>,                     \* a top-level string
      <<"q", "L", "T", "q">>,                \* a string with a 2-byte character
      <<"{", "}", " ">>,                     \* an object and trailing whitespace
      <<"{", "result=R", "}", " ">>,
      <<" ", "{", "}">>,                     \* leading whitespace
      <<"{", "}", "{", "}">>,                \* two concatenated values
      <<"1", " ", "2">>,
      <<"{", "status=error">>,               \* a truncated object
      <<"q", "a">>,                          \* a truncated string
      <<"q", "T", "q">>,                     \* not UTF-8
      <<"}">> }                              \* not JSON

PeerStreams == PeerObjects \cup OtherStreams

Min(S) == CHOOSE x \in S : \A y \in S : x <= y

\* the chunks recv() returns when the stream is cut after the positions in cuts
RECURSIVE ChunksFrom(_, _, _)
ChunksFrom(stream, cuts, start) ==
    IF start > Len(stream) THEN <<>>
    ELSE LET later == {c \in cuts : c >= start}
             stop == IF later = {} THEN Len(stream) ELSE Min(later)
         IN <<SubSeq(stream, start, stop)>> \o ChunksFrom(stream, cuts, stop + 1)

\* every way recv(buffer_size) can deliver a stream in at most MaxChunks
\* non-empty chunks
Chunkings(stream) ==
    { chunks \in { ChunksFrom(stream, cuts, 1) :
                    cuts \in { c \in SUBSET (1..(Len(stream) - 1)) : Cardinality(c) < MaxChunks } } :
        \A k \in 1..Len(chunks) : Len(chunks[k]) <= buffer_size }

\* what recv() does once the chunks are used up: b'' (the peer closed),
\* socket.timeout, or another OSError
Endings == {"close", "timeout", "reset"}

\* -------------------------------------------------- receive_full_response
Returned(data) == [kind |-> "data", data |-> data, err |-> ""]
Raised(msg) == [kind |-> "raise", data |-> <<>>, err |-> msg]
NotCalled == [kind |-> "notcalled", data |-> <<>>, err |-> ""]

\* recv() returned b'': raise when nothing was accumulated, otherwise break
\* out of the loop, after which the function ends without a return statement
OnPeerClose(chunks, n) ==
    IF n = 0 THEN Raised("Connection closed before receiving data")
    ELSE [kind |-> "None", data |-> <<>>, err |-> ""]

\* mutant: the handler returns whatever was accumulated
OnTimeout_UsePartial(chunks, n) ==
    IF n > 0 THEN Returned(Join(chunks, n)) ELSE Raised("Timeout receiving Unreal response")

\* the socket.timeout handler: one last parse of what was accumulated
OnTimeout(chunks, n) ==
    LET data == Join(chunks, n)
    IN IF n > 0 /\ Utf8Ok(data) /\ JsonLoads(Decode(data)).ok
       THEN Returned(data)
       ELSE Raised("Timeout receiving Unreal response")

\* the read loop with n chunks accumulated, about to call recv() again
RECURSIVE ReadLoop(_, _, _)
ReadLoop(chunks, ending, n) ==
    IF n < Len(chunks) THEN
        LET data == Join(chunks, n + 1)
        IN IF ~Utf8Ok(data) THEN Raised("'utf-8' codec can't decode byte")
           ELSE IF JsonLoads(Decode(data)).ok THEN Returned(data)
           ELSE ReadLoop(chunks, ending, n + 1)
    ELSE IF ending = "close" THEN OnPeerClose(chunks, n)
    ELSE IF ending = "timeout" THEN OnTimeout(chunks, n)
    ELSE Raised("Connection reset by peer")

receive_full_response(chunks, ending) == ReadLoop(chunks, ending, 0)

\* ------------------------------------------------- the connection object
ConnState(s, c, f) == [socket |-> s, connected |-> c, fds |-> f]

\* if self.socket: self.socket.close(); self.socket = None
CloseSocket(st) ==
    IF st.socket # "None" THEN [st EXCEPT !.socket = "None", !.fds = @ - 1] ELSE st

\* what can happen in connect(): socket.socket() raises, a later call
\* (setsockopt, connect) raises after the socket object was stored, or all succeed
ConnectOutcomes == {"ok", "create_fail", "refused"}

\* connect(): the state it leaves
connect(st, outcome) ==
    LET s1 == CloseSocket(st)
    IN CASE outcome = "create_fail" -> [s1 EXCEPT !.connected = FALSE]
         [] outcome = "refused" ->
                ConnState("unconnected", FALSE, s1.fds + 1)
         [] OTHER -> ConnState("connected", TRUE, s1.fds + 1)

\* mutant: connect() falls off its end without return True
connect_result_NoReturn(outcome) == FALSE

\* connect(): its return value
connect_result(outcome) == outcome = "ok"

\* mutant: the connected flag is not cleared
disconnect_KeepFlag(st) == CloseSocket(st)

\* disconnect()
disconnect(st) == [CloseSocket(st) EXCEPT !.connected = FALSE]

\* ------------------------------------------------------------ send_command
\* the forced close that opens send_command:
\* if self.socket: close it; self.socket = None; self.connected = False
force_close(st) ==
    IF st.socket # "None" THEN ConnState("None", FALSE, st.fds - 1) ELSE st

\* the close that ends send_command, on the normal path and in the handler:
\* self.socket.close(); self.socket = None; self.connected = False
close_after_command(st) == ConnState("None", FALSE, st.fds - 1)

Response(body) == [kind |-> "response", flag |-> FALSE, body |-> body]
Null == [kind |-> "null", flag |-> FALSE, body |-> EmptyDict]
Bool(b) == [kind |-> "bool", flag |-> b, body |-> EmptyDict]
Uncaught == [kind |-> "raise", flag |-> FALSE, body |-> EmptyDict]
NoReturn == [kind |-> "none", flag |-> FALSE, body |-> EmptyDict]

\* mutant: the message is preferred to the error
error_message_MessageFirst(response) ==
    PyOr(Get(response, "message"), GetDefault(response, "error", "Unknown Unreal error"))

\* response.get("error") or response.get("message", "Unknown Unreal error")
error_message(response) ==
    PyOr(Get(response, "error"), GetDefault(response, "message", "Unknown Unreal error"))

\* mutant: "not response.get('success')" in place of "is False"
Normalize_FalsySuccess(response) ==
    IF Get(response, "status") = "error" THEN
        IF "error" \notin DOMAIN response
        THEN SetItem(response, "error", error_message(response))
        ELSE response
    ELSE IF ~Truthy(Get(response, "success")) THEN
        [status |-> "error", error |-> error_message(response)]
    ELSE response

\* the two error shapes folded into one
Normalize(response) ==
    IF Get(response, "status") = "error" THEN
        IF "error" \notin DOMAIN response
        THEN SetItem(response, "error", error_message(response))
        ELSE response
    ELSE IF Get(response, "success") = "<false>" THEN
        [status |-> "error", error |-> error_message(response)]
    ELSE response

\* what can happen before the response is read: json.dumps raises, sendall
\* raises, or the command is written
SendOutcomes == {"ok", "dumps_error", "send_error"}

Ok(response, r) == [raised |-> FALSE, msg |-> "", response |-> response, sent |-> TRUE, recv |-> r]
Fail(msg, wrote, r) == [raised |-> TRUE, msg |-> msg, response |-> EmptyDict, sent |-> wrote, recv |-> r]

\* response = json.loads(response_data.decode('utf-8')) and the normalisation
ParseResponse(r) ==
    IF r.kind = "raise" THEN Fail(r.err, TRUE, r)
    ELSE IF r.kind = "None" THEN Fail("'NoneType' object has no attribute 'decode'", TRUE, r)
    ELSE IF ~Utf8Ok(r.data) THEN Fail("'utf-8' codec can't decode byte", TRUE, r)
    ELSE LET parsed == JsonLoads(Decode(r.data))
         IN IF ~parsed.ok THEN Fail("Expecting value", TRUE, r)
            ELSE IF parsed.type # "dict"
                 THEN Fail("object has no attribute 'get'", TRUE, r)
                 ELSE Ok(Normalize(parsed.obj), r)

\* the body of the try block
TryBody(send, chunks, ending) ==
    IF send = "dumps_error" THEN Fail("Object is not JSON serializable", FALSE, NotCalled)
    ELSE IF send = "send_error" THEN Fail("Broken pipe", FALSE, NotCalled)
    ELSE ParseResponse(receive_full_response(chunks, ending))

\* mutant: the handler lets the exception through
HandleException_Reraise(msg) == Uncaught

\* except Exception as e: ... return {"status": "error", "error": str(e)}
HandleException(msg) == Response([status |-> "error", error |-> msg])

NoEnv == [conn |-> "", send |-> "", chunks |-> <<>>, ending |-> ""]

\* a TCP connection just established: no command written, no probe byte
\* written, no response read, no exchange failed
Fresh == [cmds |-> 0, pings |-> 0, reads |-> 0, failed |-> FALSE]

\* the connection send_command opened, as it is when send_command closes it
Exchanged(body) ==
    [cmds |-> IF body.sent THEN 1 ELSE 0,
     pings |-> 0,
     reads |-> IF body.recv.kind = "data" THEN 1 ELSE 0,
     failed |-> body.raised]

\* the connection object after __init__
ConnInit ==
    /\ socket = "None"
    /\ connected = FALSE
    /\ fds = 0
    /\ pc = "idle"
    /\ op = "none"
    /\ env = NoEnv
    /\ sent = FALSE
    /\ recv = NotCalled
    /\ exc = ""
    /\ ret = NoReturn

\* --------------------------------------- two callers on one connection object
Callers == {"A", "B"}

\* the TCP connections there can be: the one get_unreal_connection may have
\* left open, and one per call of send_command
ConnIds == 1..(Cardinality(Callers) + 1)

\* no caller is inside send_command
ConcIdle ==
    /\ cpc = [c \in Callers |-> "start"]
    /\ csock = 0
    /\ cconnected = FALSE
    /\ copen = [k \in ConnIds |-> "unused"]
    /\ creqs = [k \in ConnIds |-> <<>>]
    /\ ctaken = [k \in ConnIds |-> FALSE]
    /\ cresult = [c \in Callers |-> "none"]
    /\ interfered = [c \in Callers |-> FALSE]

\* module state at import: _unreal_connection = None, no connection open
ToolIdle ==
    /\ singleton = FALSE
    /\ handle = FALSE
    /\ wire = Fresh
    /\ closedNow = <<>>
    /\ afterFailure = FALSE

Here == ConnState(socket, connected, fds)

\* the connection that closing the held socket ends, if it is one
ClosedBy(st) == IF st.socket = "connected" THEN <<wire>> ELSE <<>>

Becomes(st) ==
    /\ socket' = st.socket
    /\ connected' = st.connected
    /\ fds' = st.fds

\* a caller calls connect() (get_unreal_connection does)
Connect ==
    /\ pc = "idle"
    /\ \E outcome \in ConnectOutcomes :
        /\ Becomes(connect(Here, outcome))
        /\ env' = [NoEnv EXCEPT !.conn = outcome]
        /\ ret' = Bool(connect_result(outcome))
    /\ closedNow' = ClosedBy(Here)
    /\ wire' = Fresh
    /\ pc' = "returned"
    /\ op' = "connect"
    /\ UNCHANGED <<sent, recv, exc, singleton, handle, afterFailure, orchVars, mainVars, concVars>>

\* how socket.close() can end in disconnect(): it returns, or it raises and
\* the bare except swallows it
CloseOutcomes == {"closed", "raises"}

\* a caller calls disconnect()
Disconnect ==
    /\ pc = "idle"
    /\ \E close \in CloseOutcomes :
        /\ socket = "None" => close = "closed"
        /\ env' = [NoEnv EXCEPT !.conn = IF socket = "None" THEN "" ELSE close]
    /\ Becomes(disconnect(Here))
    /\ closedNow' = ClosedBy(Here)
    /\ wire' = Fresh
    /\ pc' = "returned"
    /\ op' = "disconnect"
    /\ UNCHANGED <<sent, recv, exc, ret, singleton, handle, afterFailure,
                   orchVars, mainVars, concVars>>

\* send_command when connect() fails: return None
SendCommandNoConnection ==
    /\ pc = "idle"
    /\ \E outcome \in ConnectOutcomes :
        /\ ~connect_result(outcome)
        /\ Becomes(connect(force_close(Here), outcome))
        /\ env' = [NoEnv EXCEPT !.conn = outcome]
        /\ afterFailure' = (afterFailure \/ (handle /\ outcome = "refused"))
    /\ ret' = Null
    /\ closedNow' = ClosedBy(Here)
    /\ wire' = Fresh
    /\ handle' = FALSE
    /\ pc' = "returned"
    /\ op' = "send_command"
    /\ UNCHANGED <<sent, recv, exc, singleton, orchVars, mainVars, concVars>>

\* send_command when connect() succeeds: send, receive, normalise, close
SendCommandConnected ==
    /\ pc = "idle"
    /\ \E outcome \in ConnectOutcomes, send \in SendOutcomes,
          stream \in PeerStreams, ending \in Endings :
       \E chunks \in Chunkings(stream) :
        /\ connect_result(outcome)
        /\ send # "ok" => (stream = <<>> /\ ending = "close")
        /\ LET st == connect(force_close(Here), outcome)
               body == TryBody(send, chunks, ending)
           IN /\ env' = [conn |-> outcome, send |-> send,
                         chunks |-> IF send = "ok" THEN chunks ELSE <<>>,
                         ending |-> IF send = "ok" THEN ending ELSE ""]
              /\ sent' = body.sent
              /\ recv' = body.recv
              /\ exc' = body.msg
              /\ ret' = IF body.raised THEN HandleException(body.msg)
                        ELSE Response(body.response)
              /\ Becomes(close_after_command(st))
              /\ closedNow' = ClosedBy(Here) \o <<Exchanged(body)>>
    /\ wire' = Fresh
    /\ handle' = FALSE
    /\ pc' = "returned"
    /\ op' = "send_command"
    /\ UNCHANGED <<singleton, afterFailure, orchVars, mainVars, concVars>>

\* the caller takes the returned value; the object is ready for the next call
Resume ==
    /\ pc = "returned"
    /\ pc' = "idle"
    /\ op' = "none"
    /\ env' = NoEnv
    /\ sent' = FALSE
    /\ recv' = NotCalled
    /\ exc' = ""
    /\ ret' = NoReturn
    /\ closedNow' = <<>>
    /\ afterFailure' = (afterFailure /\ ~(op = "send_command" /\ env.conn = "ok"))
    /\ UNCHANGED <<socket, connected, fds, singleton, handle, wire, orchVars, mainVars, concVars>>

\* how the probe sendall(b'\x00') of get_unreal_connection can end
PingOutcomes == {"ok", "fail"}

\* get_unreal_connection(): the first call, or a call after a failure, makes
\* a connection object and connects it; a later call writes one probe byte to
\* the held socket and, when that raises, disconnects, makes a new object and
\* connects it; a failed connect leaves _unreal_connection None
GetUnrealConnection ==
    /\ pc = "idle"
    /\ \E ping \in PingOutcomes, outcome \in ConnectOutcomes :
        IF singleton /\ socket = "connected" /\ ping = "ok" THEN
            /\ outcome = "ok"
            /\ wire.pings < MaxPings
            /\ wire' = [wire EXCEPT !.pings = @ + 1]
            /\ closedNow' = <<>>
            /\ env' = NoEnv
            /\ singleton' = TRUE
            /\ UNCHANGED <<socket, connected, fds, afterFailure>>
        ELSE
            /\ ping = "fail"
            /\ Becomes(connect(ConnState("None", FALSE, 0), outcome))
            /\ closedNow' = IF singleton THEN ClosedBy(Here) ELSE <<>>
            /\ wire' = Fresh
            /\ env' = [NoEnv EXCEPT !.conn = outcome]
            /\ singleton' = connect_result(outcome)
            /\ afterFailure' = (afterFailure \/ outcome = "refused")
    /\ handle' = singleton'
    /\ ret' = Bool(singleton')
    /\ pc' = "returned"
    /\ op' = "get_unreal_connection"
    /\ UNCHANGED <<sent, recv, exc, orchVars, mainVars, concVars>>

\* ------------------------------------------------------ a pass-through tool
\* what send_command returns, given what the environment does during the call
send_command_return(outcome, send, chunks, ending) ==
    IF ~connect_result(outcome) THEN Null
    ELSE LET body == TryBody(send, chunks, ending)
         IN IF body.raised THEN HandleException(body.msg) ELSE Response(body.response)

\* tools/ui_tools.py, create_umg_widget_blueprint: the mapping the tool
\* returns; unreal tells whether get_unreal_connection() gave a connection and
\* r is what send_command returned
tool_result(unreal, r) ==
    IF ~unreal
    THEN [success |-> "<false>", message |-> "Failed to connect to Unreal Engine"]
    ELSE IF r.kind = "raise"
    THEN [success |-> "<false>", message |-> "exception"]
    ELSE IF r.kind # "response" \/ DOMAIN r.body = {}
    THEN [success |-> "<false>", message |-> "No response from Unreal Engine"]
    ELSE r.body

\* what the tool returns on a transport failure: no connection from
\* get_unreal_connection, connect refused in send_command, sendall raising,
\* a receive timeout, the peer closing, and an error reported by the peer
TransportFailures ==
    { tool_result(FALSE, Null),
      tool_result(TRUE, send_command_return("refused", "ok", <<>>, "close")),
      tool_result(TRUE, send_command_return("ok", "send_error", <<>>, "close")),
      tool_result(TRUE, send_command_return("ok", "ok", <<>>, "timeout")),
      tool_result(TRUE, send_command_return("ok", "ok", <<>>, "close")),
      tool_result(TRUE, send_command_return("ok", "ok",
                            << <<"{", "success=false", "error=X", "}">> >>, "close")) }

\* ------------------------------------------------------------ execute_steps
\* tool names of the plans explored here: one that the dispatch hands to a
\* collaborator (batch_create_assets is dispatched the same way and is reached
\* through the plan of plan_steps) and one that it does not know
Tools == {"create_level", "unknown_tool"}

PlanStep(tool) == [tool |-> tool]

\* a Plan Step that its planner flagged as ambiguous, as prompt_for_ambiguity
\* would be given it; execute_steps reads only 'tool' and 'args'
AmbiguousStep(tool) == [tool |-> tool, ambiguous |-> TRUE]

\* the steps a plan is made of
StepKinds == {PlanStep(t) : t \in Tools} \cup {AmbiguousStep("unknown_tool")}

\* the plans of at most MaxSteps steps
Plans == UNION { [1..n -> StepKinds] : n \in 0..MaxSteps }

Raises(msg) == [kind |-> "raise", msg |-> msg, out |-> EmptyDict]
Returns(output) == [kind |-> "return", msg |-> "", out |-> output]

\* a transport failure inside the tool call
TransportOutcomes == { Returns(m) : m \in TransportFailures }

\* what a tool function can do when invoked: raise, or return one of the
\* mappings of the collaborator contract (its own {success, message} shape or
\* the Response of send_command passed through)
CollaboratorOutcomes ==
    TransportOutcomes \cup
    { Raises("boom"),
      Returns([success |-> "<true>"]),
      Returns([success |-> "<true>", message |-> "m"]),
      Returns([success |-> "<false>", message |-> "m"]),
      Returns([success |-> "<false>", message |-> ""]),
      Returns([success |-> "<false>"]),
      Returns([status |-> "success", message |-> "m"]),
      Returns([status |-> "success", result |-> "R"]) }

\* the if/elif/else that picks the tool: an unknown name yields a failure mapping
ToolOutcomes(tool) ==
    IF tool \in {"create_level", "batch_create_assets"} THEN CollaboratorOutcomes
    ELSE {Returns([success |-> "<false>", message |-> "Unknown tool"])}

\* error = None if output.get('success') else output.get('message')
error_of(output) ==
    IF Truthy(Get(output, "success")) THEN "<null>" ELSE Get(output, "message")

\* the exception that reaches the except clause of one attempt: raised by the
\* tool, or raise Exception(error) when error is truthy
Caught(outcome) ==
    IF outcome.kind = "raise" THEN [raised |-> TRUE, msg |-> outcome.msg]
    ELSE IF Truthy(error_of(outcome.out)) THEN [raised |-> TRUE, msg |-> error_of(outcome.out)]
    ELSE [raised |-> FALSE, msg |-> "<null>"]

\* if attempt < MAX_RETRIES: sleep and retry
CanRetry(n) == n < MAX_RETRIES

\* mutant: a failed attempt moves on to the next step
AfterRetry_MoveOn(i) == i + 1

\* the step the loop is at after a failed attempt that is retried
AfterRetry(i) == i

\* mutant: break leaves the for loop at the same step
AfterBreak_Stay(i) == i

\* the step the for loop goes to after break
AfterBreak(i) == i + 1

\* mutant: the error is recorded as str(error), "None" for a step that succeeded
Entry_StrError(step, output, error) ==
    [step |-> step, output |-> output,
     error |-> IF error = "<null>" THEN "None" ELSE error]

\* an entry of the Run Result; output is <<>> for None and <<mapping>> otherwise
Entry(step, output, error) == [step |-> step, output |-> output, error |-> error]

\* whether the tool itself failed at an invocation, as the collaborator
\* contract defines failure: an exception, success == false, or an error key
ToolFailed(outcome) ==
    \/ outcome.kind = "raise"
    \/ Get(outcome.out, "success") = "<false>"
    \/ "error" \in DOMAIN outcome.out

\* the error a failed invocation carries
ToolError(outcome) ==
    IF outcome.kind = "raise" THEN outcome.msg
    ELSE IF "error" \in DOMAIN outcome.out THEN outcome.out["error"]
    ELSE Get(outcome.out, "message")

\* ------------------------------------------------------ batch_create_assets
\* asset types: the three the tool creates and one it does not support
SupportedTypes == {"Blueprint", "Level", "Material"}
AssetTypes == SupportedTypes \cup {"Texture"}

\* an element of the assets argument; NotAMapping stands for an element that
\* is not a dict, on which asset.get raises AttributeError
NotAMapping == "<not a mapping>"
Asset(type) == [type |-> type, name |-> "N", save_path |-> "/Game"]
AssetKinds == {Asset(t) : t \in AssetTypes \cup {NotAMapping}}

\* the assets arguments of at most MaxAssets elements
AssetLists == UNION { [1..n -> AssetKinds] : n \in 0..MaxAssets }

\* what unreal.send_command gives the tool for one asset: None, an error
\* Response, or a success Response
SendReplies ==
    { Null,
      Response([status |-> "error", error |-> "X"]),
      Response([status |-> "success", result |-> "R"]) }

\* the Python value of a reply: <<>> for None, <<mapping>> otherwise
ReplyValue(r) == IF r.kind = "null" THEN <<>> ELSE <<r.body>>

\* the response recorded for one asset: the reply to its create command, or
\* the tool's own failure mapping for an unsupported type
asset_response(asset, reply) ==
    IF asset.type \in SupportedTypes THEN ReplyValue(reply)
    ELSE <<[success |-> "<false>", message |-> "Unsupported asset type"]>>

\* results after the first n passes of the for loop
batch_results(assets, replies, n) ==
    [k \in 1..n |-> [type |-> assets[k].type, name |-> assets[k].name,
                     result |-> asset_response(assets[k], replies[k])]]

\* number of elements handled before the first one that is not a mapping
BeforeRaise(assets) ==
    Min({k \in 1..Len(assets) : assets[k].type = NotAMapping} \cup {Len(assets) + 1}) - 1

\* mutant: success is true only when every asset was created
batch_create_assets_AllOrNothing(unreal, assets, replies) ==
    IF ~unreal
    THEN [success |-> "<false>", message |-> "Failed to connect to Unreal Engine",
          results |-> <<>>]
    ELSE IF BeforeRaise(assets) < Len(assets)
    THEN [success |-> "<false>", message |-> "object has no attribute 'get'",
          results |-> batch_results(assets, replies, BeforeRaise(assets))]
    ELSE LET rs == batch_results(assets, replies, Len(assets))
             created(k) == rs[k].result # <<>> /\ Get(rs[k].result[1], "status") = "success"
         IN IF \A k \in 1..Len(rs) : created(k)
            THEN [success |-> "<true>", results |-> rs]
            ELSE [success |-> "<false>", message |-> "some assets failed", results |-> rs]

\* batch_create_assets(ctx, assets); unreal tells whether
\* get_unreal_connection() gave a connection, replies[k] is what send_command
\* returns for the k-th asset
batch_create_assets(unreal, assets, replies) ==
    IF ~unreal
    THEN [success |-> "<false>", message |-> "Failed to connect to Unreal Engine",
          results |-> <<>>]
    ELSE IF BeforeRaise(assets) < Len(assets)
    THEN [success |-> "<false>", message |-> "object has no attribute 'get'",
          results |-> batch_results(assets, replies, BeforeRaise(assets))]
    ELSE [success |-> "<true>", results |-> batch_results(assets, replies, Len(assets))]

\* what the batch_create_assets call of a step can return
BatchOutcomes(step) ==
    { Returns(batch_create_assets(unreal, step.args.assets, replies)) :
        unreal \in BOOLEAN, replies \in [1..Len(step.args.assets) -> SendReplies] }

\* --------------------------------------------------------------- plan_steps
\* a prompt is a sequence of characters
Dungeon == <<"d", "u", "n", "g", "e", "o", "n">>

\* what str.lower() does to the capital letters of the prompts
LowerOf ==
    ("D" :> "d") @@ ("U" :> "u") @@ ("N" :> "n") @@ ("G" :> "g") @@
    ("E" :> "e") @@ ("O" :> "o")

\* prompt.lower()
Lower(s) == [i \in 1..Len(s) |-> IF s[i] \in DOMAIN LowerOf THEN LowerOf[s[i]] ELSE s[i]]

\* sub in s
Contains(s, sub) ==
    \E i \in 1..(Len(s) - Len(sub) + 1) : SubSeq(s, i, i + Len(sub) - 1) = sub

\* the prompts given on the command line
Prompts ==
    { <<>>,
      <<"d", "u", "n", "g", "e", "o", "n">>,
      <<"a", " ", "d", "u", "n", "g", "e", "o", "n", "s">>,
      <<"D", "U", "N", "G", "E", "O", "N">>,
      <<"D", "u", "n", "g", "e", "o", "n">>,
      <<"d", "u", "n", "g", "e", "o">>,
      <<"d", "u", "n", " ", "g", "e", "o", "n">>,
      <<"d", "r", "a", "g", "o", "n">> }

\* a Plan Step with its arguments
PlanStepWith(tool, args) == [tool |-> tool, args |-> args]

Blueprint(name) == [type |-> "Blueprint", name |-> name, save_path |-> "/Game/Blueprints"]

\* mutant: one monster short
DungeonAssets_FourMonsters ==
    << Blueprint("BP_Room"), Blueprint("BP_Monster1"), Blueprint("BP_Monster2"),
       Blueprint("BP_Monster3"), Blueprint("BP_Monster4"),
       Blueprint("BP_PlayerSpawn"), Blueprint("BP_Exit") >>

\* the assets of the batch step of the dungeon plan
DungeonAssets ==
    << Blueprint("BP_Room"), Blueprint("BP_Monster1"), Blueprint("BP_Monster2"),
       Blueprint("BP_Monster3"), Blueprint("BP_Monster4"), Blueprint("BP_Monster5"),
       Blueprint("BP_PlayerSpawn"), Blueprint("BP_Exit") >>

DungeonPlan ==
    << PlanStepWith("create_level", [level_name |-> "ProceduralDungeon"]),
       PlanStepWith("batch_create_assets", [assets |-> DungeonAssets]) >>

\* mutant: a project that already has assets gets the dungeon plan too
plan_steps_ContextDriven(p, c) ==
    IF Contains(Lower(p), Dungeon) \/ c.assets # <<>> THEN DungeonPlan ELSE <<>>

\* plan_steps(prompt, context)
plan_steps(p, c) ==
    IF Contains(Lower(p), Dungeon) THEN DungeonPlan ELSE <<>>

\* --------------------------------------------------------------------- main
Variants == {"base", "extended"}

\* what list_assets can give query_project_context: it raises, or returns a
\* mapping with success and assets
ListRaises == [kind |-> "raise", success |-> FALSE, assets |-> <<>>]
Listings ==
    { ListRaises,
      [kind |-> "return", success |-> TRUE, assets |-> <<>>],
      [kind |-> "return", success |-> TRUE, assets |-> <<"/Game/A">>],
      [kind |-> "return", success |-> FALSE, assets |-> <<"/Game/A">>] }

\* query_project_context(): the assets listed, and the metadata of the first 3
query_project_context(listing) ==
    LET asset_list == IF listing.success THEN listing.assets ELSE <<>>
    IN [assets |-> asset_list,
        metadata |-> [k \in 1..Min({3, Len(asset_list)}) |-> "metadata"]]

NoContext == [assets |-> <<>>, metadata |-> <<>>]

IsFailure(r) == r.error # "<null>"

\* failures = [r for r in results if r["error"] is not None]
failures(rs) == SelectSeq(rs, IsFailure)

\* how the post-run hook can end: ingest_guidelines returns, the import
\* fails, or one of its subprocess.run(..., check=True) raises
HookOutcomes == {"ok", "import_error", "failed"}

\* the exit status after the hook: an exception other than ImportError is
\* not caught and ends the process with status 1; else sys.exit(2 if failures else 0)
exit_status(h, rs) ==
    IF h = "failed" THEN 1
    ELSE IF failures(rs) # <<>> THEN 2 ELSE 0

\* no main is running
MainIdle ==
    /\ variant = "base"
    /\ argc = 1
    /\ prompt = <<>>
    /\ context = NoContext
    /\ plan = <<>>
    /\ mpc = "start"
    /\ exitCode = -1
    /\ written = <<>>
    /\ hook = ""

OrchIdle ==
    /\ steps = <<>>
    /\ idx = 1
    /\ attempt = 0
    /\ results = <<>>
    /\ returned = FALSE
    /\ tries = <<>>
    /\ slept = <<>>
    /\ everyFailed = <<>>
    /\ succeededAt = <<>>
    /\ lastError = <<>>
    /\ lastOk = <<>>
    /\ everyTransport = <<>>
    /\ finished = {}
    /\ clarified = {}

Init == ConnInit /\ ToolIdle /\ ConcIdle /\ OrchIdle /\ MainIdle

\* execute_steps(plan) is called: results = [], the for loop is at the first step
InitOrch ==
    /\ ConnInit
    /\ ToolIdle
    /\ ConcIdle
    /\ MainIdle
    /\ steps \in Plans
    /\ idx = 1
    /\ attempt = 0
    /\ results = <<>>
    /\ returned = FALSE
    /\ tries = [i \in 1..Len(steps) |-> 0]
    /\ slept = [i \in 1..Len(steps) |-> 0]
    /\ everyFailed = [i \in 1..Len(steps) |-> TRUE]
    /\ succeededAt = [i \in 1..Len(steps) |-> 0]
    /\ lastError = [i \in 1..Len(steps) |-> "<null>"]
    /\ lastOk = [i \in 1..Len(steps) |-> FALSE]
    /\ everyTransport = [i \in 1..Len(steps) |-> TRUE]
    /\ finished = {}
    /\ clarified = {}

\* one pass through the body of the while loop: invoke the tool, then record
\* the output, or sleep and retry, or record the error
AttemptWith(outcome) ==
    /\ ~returned
    /\ idx \in 1..Len(steps)
    /\  LET e == Caught(outcome)
        IN /\ tries' = [tries EXCEPT ![idx] = @ + 1]
           /\ everyFailed' = [everyFailed EXCEPT ![idx] = @ /\ ToolFailed(outcome)]
           /\ succeededAt' = [succeededAt EXCEPT ![idx] =
                                IF @ = 0 /\ ~ToolFailed(outcome) THEN tries[idx] + 1 ELSE @]
           /\ lastError' = [lastError EXCEPT ![idx] =
                                IF ToolFailed(outcome) THEN ToolError(outcome) ELSE "<null>"]
           /\ lastOk' = [lastOk EXCEPT ![idx] = ~ToolFailed(outcome)]
           /\ everyTransport' = [everyTransport EXCEPT ![idx] =
                                   @ /\ outcome \in TransportOutcomes]
           /\ IF ~e.raised THEN
                 /\ results' = Append(results, Entry(steps[idx], <<outcome.out>>, "<null>"))
                 /\ finished' = finished \cup {idx}
                 /\ idx' = AfterBreak(idx)
                 /\ attempt' = 0
                 /\ UNCHANGED slept
              ELSE IF CanRetry(attempt) THEN
                 /\ slept' = [slept EXCEPT ![idx] = @ + RETRY_DELAY]
                 /\ attempt' = attempt + 1
                 /\ idx' = AfterRetry(idx)
                 /\ UNCHANGED <<results, finished>>
              ELSE
                 /\ results' = Append(results, Entry(steps[idx], <<>>, e.msg))
                 /\ finished' = finished \cup {idx}
                 /\ idx' = AfterBreak(idx)
                 /\ attempt' = 0
                 /\ UNCHANGED slept
    /\ UNCHANGED <<steps, returned, clarified, connVars, mainVars>>

\* a pass of the loop, the tool being any collaborator
Attempt ==
    /\ idx \in 1..Len(steps)
    /\ \E outcome \in ToolOutcomes(steps[idx].tool) : AttemptWith(outcome)

\* a pass of the loop on a batch_create_assets step, the tool being the
\* function of tools/basic_asset_tools.py
BatchAttempt ==
    /\ idx \in 1..Len(steps)
    /\ steps[idx].tool = "batch_create_assets"
    /\ \E outcome \in BatchOutcomes(steps[idx]) : AttemptWith(outcome)

\* the for loop is over: return results
Return ==
    /\ ~returned
    /\ idx > Len(steps)
    /\ returned' = TRUE
    /\ UNCHANGED <<steps, idx, attempt, results, tries, slept, everyFailed,
                   succeededAt, lastError, lastOk, everyTransport, finished,
                   clarified, connVars, mainVars>>

\* the process is started, with or without a prompt
InitMain ==
    /\ ConnInit
    /\ ToolIdle
    /\ ConcIdle
    /\ OrchIdle
    /\ variant \in Variants
    /\ argc \in {1, 2}
    /\ prompt \in (IF argc = 2 THEN Prompts ELSE {<<>>})
    /\ context = NoContext
    /\ plan = <<>>
    /\ mpc = "start"
    /\ exitCode = -1
    /\ written = <<>>
    /\ hook = ""

\* if len(sys.argv) < 2: usage, sys.exit(1)
MainStart ==
    /\ mpc = "start"
    /\ IF argc < 2
       THEN mpc' = "exited" /\ exitCode' = 1
       ELSE mpc' = "context" /\ UNCHANGED exitCode
    /\ UNCHANGED <<variant, argc, prompt, context, plan, written, hook,
                   connVars, orchVars>>

\* execute_steps(p) is entered
Begin(p) ==
    /\ steps' = p
    /\ idx' = 1
    /\ attempt' = 0
    /\ results' = <<>>
    /\ returned' = FALSE
    /\ tries' = [i \in 1..Len(p) |-> 0]
    /\ slept' = [i \in 1..Len(p) |-> 0]
    /\ everyFailed' = [i \in 1..Len(p) |-> TRUE]
    /\ succeededAt' = [i \in 1..Len(p) |-> 0]
    /\ lastError' = [i \in 1..Len(p) |-> "<null>"]
    /\ lastOk' = [i \in 1..Len(p) |-> FALSE]
    /\ everyTransport' = [i \in 1..Len(p) |-> TRUE]
    /\ finished' = {}
    /\ clarified' = {}

\* context = query_project_context(); steps = plan_steps(prompt, context);
\* the extended main exits with 0 on an empty plan, else execute_steps starts
MainPlan ==
    /\ mpc = "context"
    /\ \E listing \in Listings :
        IF listing.kind = "raise" THEN
            /\ mpc' = "exited"
            /\ exitCode' = 1
            /\ UNCHANGED <<context, plan, orchVars>>
        ELSE
            LET c == query_project_context(listing)
                p == plan_steps(prompt, c)
            IN /\ context' = c
               /\ plan' = <<p>>
               /\ IF variant = "extended" /\ p = <<>>
                  THEN /\ mpc' = "exited"
                       /\ exitCode' = 0
                       /\ UNCHANGED orchVars
                  ELSE /\ mpc' = "execute"
                       /\ Begin(p)
                       /\ UNCHANGED exitCode
    /\ UNCHANGED <<variant, argc, prompt, written, hook, connVars>>

\* results = execute_steps(steps): one pass of its loop
ExecAttempt == mpc = "execute" /\ Attempt

\* execute_steps returns
ExecReturn == mpc = "execute" /\ Return

\* after execute_steps: the base main prints and ends; the extended main
\* computes failures and writes the summary file
MainReport ==
    /\ mpc = "execute"
    /\ returned
    /\ IF variant = "base"
       THEN /\ mpc' = "exited"
            /\ exitCode' = 0
            /\ UNCHANGED written
       ELSE /\ written' = Append(written, results)
            /\ mpc' = "hook"
            /\ UNCHANGED exitCode
    /\ UNCHANGED <<variant, argc, prompt, context, plan, hook, connVars, orchVars>>

\* the guideline-ingest hook, then sys.exit(2 if failures else 0)
MainHook ==
    /\ mpc = "hook"
    /\ \E h \in HookOutcomes :
        /\ hook' = h
        /\ exitCode' = exit_status(h, results)
    /\ mpc' = "exited"
    /\ UNCHANGED <<variant, argc, prompt, context, plan, written, connVars, orchVars>>

NextMain ==
    \/ MainStart
    \/ MainPlan
    \/ ExecAttempt
    \/ ExecReturn
    \/ MainReport
    \/ MainHook

SpecMain == InitMain /\ [][NextMain]_vars

NextOrch ==
    \/ Attempt
    \/ Return

SpecOrch == InitOrch /\ [][NextOrch]_vars

\* execute_steps is straight-line code in one thread: while every tool call
\* returns, the loop keeps taking its next pass
SpecOrchFair == SpecOrch /\ WF_vars(NextOrch)

\* execute_steps(plan) is called with a plan of one batch_create_assets step
InitBatch ==
    /\ ConnInit
    /\ ToolIdle
    /\ ConcIdle
    /\ MainIdle
    /\ \E assets \in AssetLists :
        steps = <<PlanStepWith("batch_create_assets", [assets |-> assets])>>
    /\ idx = 1
    /\ attempt = 0
    /\ results = <<>>
    /\ returned = FALSE
    /\ tries = [i \in 1..Len(steps) |-> 0]
    /\ slept = [i \in 1..Len(steps) |-> 0]
    /\ everyFailed = [i \in 1..Len(steps) |-> TRUE]
    /\ succeededAt = [i \in 1..Len(steps) |-> 0]
    /\ lastError = [i \in 1..Len(steps) |-> "<null>"]
    /\ lastOk = [i \in 1..Len(steps) |-> FALSE]
    /\ everyTransport = [i \in 1..Len(steps) |-> TRUE]
    /\ finished = {}
    /\ clarified = {}

NextBatch ==
    \/ BatchAttempt
    \/ Return

SpecBatch == InitBatch /\ [][NextBatch]_vars

Next ==
    \/ Connect
    \/ Disconnect
    \/ SendCommandNoConnection
    \/ SendCommandConnected
    \/ Resume

Spec == Init /\ [][Next]_vars

\* a tool calls send_command on the connection it was given
ToolSendNoConnection == handle /\ SendCommandNoConnection

ToolSendConnected == handle /\ SendCommandConnected

\* the server process: calls of get_unreal_connection (by the startup hook and
\* by each tool), each tool then calling send_command on what it was given
NextTool ==
    \/ GetUnrealConnection
    \/ ToolSendNoConnection
    \/ ToolSendConnected
    \/ Resume

SpecTool == Init /\ [][NextTool]_vars

\* ------------------------------- send_command run by two callers at once
\* Each caller runs the statements of send_command in order; a step of one
\* caller is one statement (or one call), and the steps of the two callers
\* interleave. The peer is reachable and answers the first command written to
\* a connection, once.

\* both callers are given the singleton, whose socket get_unreal_connection
\* has left connected, or closed by an earlier send_command
InitConc ==
    /\ ConnInit
    /\ ToolIdle
    /\ OrchIdle
    /\ MainIdle
    /\ cpc = [c \in Callers |-> "start"]
    /\ csock \in {0, 1}
    /\ cconnected = (csock = 1)
    /\ copen = [k \in ConnIds |-> IF k = csock THEN "open" ELSE "unused"]
    /\ creqs = [k \in ConnIds |-> <<>>]
    /\ ctaken = [k \in ConnIds |-> FALSE]
    /\ cresult = [c \in Callers |-> "none"]
    /\ interfered = [c \in Callers |-> FALSE]

\* the caller is between its connect() and the end of its exchange: the
\* socket in self.socket is the one it is about to write to or read from
Using(c) == cpc[c] \in {"send", "recv"}

\* the callers whose socket is taken away when self.socket stops being k
Disturbed(c, k) == {d \in Callers \ {c} : k # 0 /\ Using(d)}

\* socket.close() on connection k (0: there is none)
Closed(k) == IF k = 0 THEN copen ELSE [copen EXCEPT ![k] = "closed"]

\* the next connection a call of socket.socket() gives
NewConn == CHOOSE k \in ConnIds : copen[k] = "unused" /\ \A j \in ConnIds : j < k => copen[j] # "unused"

\* mutant: connect() does not store the socket it has connected
AfterConnect_NotStored(k) == 0

\* self.socket once connect() has returned True
AfterConnect(k) == k

\* self.socket can be written to and read from: it is not None and not closed
Usable(k) == k # 0 /\ copen[k] = "open"

\* if self.socket: close it; self.socket = None; self.connected = False
ConcForceClose(c) ==
    /\ cpc[c] = "start"
    /\ copen' = Closed(csock)
    /\ csock' = 0
    /\ cconnected' = FALSE
    /\ interfered' = [d \in Callers |-> interfered[d] \/ d \in Disturbed(c, csock)]
    /\ cpc' = [cpc EXCEPT ![c] = "connect"]
    /\ UNCHANGED <<creqs, ctaken, cresult>>

\* if not self.connect(): connect() closes the socket held, makes a new one,
\* stores it and connects it
ConcConnect(c) ==
    /\ cpc[c] = "connect"
    /\ LET k == NewConn
       IN /\ copen' = [Closed(csock) EXCEPT ![k] = "open"]
          /\ csock' = AfterConnect(k)
    /\ cconnected' = TRUE
    /\ interfered' = [d \in Callers |-> interfered[d] \/ d \in Disturbed(c, csock)]
    /\ cpc' = [cpc EXCEPT ![c] = "send"]
    /\ UNCHANGED <<creqs, ctaken, cresult>>

\* self.socket.sendall(...): on None or on a closed socket it raises
ConcSend(c) ==
    /\ cpc[c] = "send"
    /\ IF Usable(csock)
       THEN /\ creqs' = [creqs EXCEPT ![csock] = Append(@, c)]
            /\ cpc' = [cpc EXCEPT ![c] = "recv"]
            /\ UNCHANGED cresult
       ELSE /\ cresult' = [cresult EXCEPT ![c] = "error"]
            /\ cpc' = [cpc EXCEPT ![c] = "handler"]
            /\ UNCHANGED creqs
    /\ UNCHANGED <<csock, cconnected, copen, ctaken, interfered>>

\* self.receive_full_response(self.socket) and json.loads: the reply on that
\* connection is the peer's answer to the first command written to it; with
\* no command on it the read times out, and once the reply was read the peer
\* has closed
ConcReceive(c) ==
    /\ cpc[c] = "recv"
    /\ IF Usable(csock) /\ creqs[csock] # <<>> /\ ~ctaken[csock]
       THEN /\ ctaken' = [ctaken EXCEPT ![csock] = TRUE]
            /\ cresult' = [cresult EXCEPT ![c] =
                              IF creqs[csock][1] = c THEN "own" ELSE "foreign"]
            /\ cpc' = [cpc EXCEPT ![c] = "close"]
       ELSE /\ cresult' = [cresult EXCEPT ![c] = "error"]
            /\ cpc' = [cpc EXCEPT ![c] = "handler"]
            /\ UNCHANGED ctaken
    /\ UNCHANGED <<csock, cconnected, copen, creqs, interfered>>

\* the close that ends the call, on the normal path (cpc "close") and in the
\* except handler (cpc "handler"): close self.socket inside try/except, then
\* self.socket = None and self.connected = False
ConcClose(c) ==
    /\ cpc[c] \in {"close", "handler"}
    /\ copen' = Closed(csock)
    /\ csock' = 0
    /\ cconnected' = FALSE
    /\ interfered' = [d \in Callers |-> interfered[d] \/ d \in Disturbed(c, csock)]
    /\ cpc' = [cpc EXCEPT ![c] = "done"]
    /\ UNCHANGED <<creqs, ctaken, cresult>>

\* a step of either caller
CallerForceClose ==
    \E c \in Callers : ConcForceClose(c) /\ UNCHANGED <<objVars, orchVars, mainVars>>

CallerConnect ==
    \E c \in Callers : ConcConnect(c) /\ UNCHANGED <<objVars, orchVars, mainVars>>

CallerSend ==
    \E c \in Callers : ConcSend(c) /\ UNCHANGED <<objVars, orchVars, mainVars>>

CallerReceive ==
    \E c \in Callers : ConcReceive(c) /\ UNCHANGED <<objVars, orchVars, mainVars>>

CallerClose ==
    \E c \in Callers : ConcClose(c) /\ UNCHANGED <<objVars, orchVars, mainVars>>

NextConc ==
    \/ CallerForceClose
    \/ CallerConnect
    \/ CallerSend
    \/ CallerReceive
    \/ CallerClose

SpecConc == InitConc /\ [][NextConc]_vars

\* ================================================================ claims
\* a send_command call has just returned
SendReturned == pc = "returned" /\ op = "send_command"

\* the call received and parsed a JSON object from the peer
HasReply == SendReturned /\ exc = "" /\ ret.kind = "response"

\* that object, as parsed from the bytes receive_full_response returned
Reply == JsonLoads(Decode(recv.data)).obj

\* all the bytes the peer had for this call
Stream == Join(env.chunks, Len(env.chunks))

\* the peer reported failure in one of the two wire shapes
PeerFailure == Get(Reply, "status") = "error" \/ Get(Reply, "success") = "<false>"

\* C1: send_command never raises to its caller; it returns null exactly when
\* the connect step failed, and then nothing was sent; otherwise it returns a
\* Response, and a local exception is returned as
\* {status: "error", error: <exception message>}.
C1_NeverRaises ==
    SendReturned =>
        /\ ret.kind \in {"null", "response"}
        /\ (ret.kind = "null") <=> (env.conn # "ok")
        /\ ret.kind = "null" => ~sent
        /\ exc # "" => ret = Response([status |-> "error", error |-> exc])

\* C1's case: a receive timeout inside a call that connected and sent
C1_Witness ==
    /\ SendReturned
    /\ sent
    /\ exc = "Timeout receiving Unreal response"
    /\ ret = Response([status |-> "error", error |-> exc])

\* C2: when send_command returns, whatever its outcome, the object holds no
\* socket (socket is null, nothing left open) and is marked not connected.
C2_ClosedOnReturn ==
    SendReturned => (socket = "None" /\ ~connected /\ fds = 0)

\* C3: chunk-boundary independence: for every split into non-empty chunks of
\* the bytes of exactly one valid JSON document, receive_full_response returns
\* exactly those bytes.
C3_ChunkBoundaryIndependence ==
    (SendReturned /\ recv.kind # "notcalled"
        /\ Utf8Ok(Stream) /\ JsonLoads(Decode(Stream)).ok)
    => recv = Returned(Stream)

\* C4: receive_full_response never returns an empty or null buffer: a close
\* with zero bytes received raises "connection closed before receiving data",
\* and a close after some bytes were accumulated yields the accumulated bytes.
C4_NeverEmptyOrNull ==
    (SendReturned /\ recv.kind # "notcalled") =>
        /\ recv.kind \in {"data", "raise"}
        /\ recv.kind = "data" => recv.data # <<>>
        /\ (env.ending = "close" /\ env.chunks = <<>>)
             => recv = Raised("Connection closed before receiving data")
        /\ (env.ending = "close" /\ env.chunks # <<>>
              /\ \A n \in 1..Len(env.chunks) :
                    /\ Utf8Ok(Join(env.chunks, n))
                    /\ ~JsonLoads(Decode(Join(env.chunks, n))).ok)
             => recv = Returned(Stream)

\* C5 as stated: a reply {"success": false, "error": X}, or with "message": X
\* when "error" is absent, is returned with status "error" and error X, for
\* every X; a reply {"status": "error", "message": Y} without an "error" key is
\* returned with error Y and its other fields kept.
C5_Original ==
    HasReply =>
        /\ (Get(Reply, "success") = "<false>" /\ "error" \in DOMAIN Reply)
             => (Get(ret.body, "status") = "error" /\ Get(ret.body, "error") = Reply["error"])
        /\ (Get(Reply, "success") = "<false>" /\ "error" \notin DOMAIN Reply
              /\ "message" \in DOMAIN Reply)
             => (Get(ret.body, "status") = "error" /\ Get(ret.body, "error") = Reply["message"])
        /\ (Get(Reply, "status") = "error" /\ "error" \notin DOMAIN Reply
              /\ "message" \in DOMAIN Reply)
             => /\ Get(ret.body, "error") = Reply["message"]
                /\ \A k \in DOMAIN Reply : Get(ret.body, k) = Reply[k]

\* C5 as amended: the same, for an X that is a non-empty string in the
\* "error" field; in a reply whose status is not "error", an empty or null
\* "error" counts as absent, and "message", else "Unknown Unreal error", is
\* returned in its place.
C5_Normalization ==
    HasReply =>
        /\ (Get(Reply, "success") = "<false>" /\ Truthy(Get(Reply, "error")))
             => (Get(ret.body, "status") = "error" /\ Get(ret.body, "error") = Reply["error"])
        /\ (Get(Reply, "success") = "<false>" /\ "error" \notin DOMAIN Reply
              /\ "message" \in DOMAIN Reply)
             => (Get(ret.body, "status") = "error" /\ Get(ret.body, "error") = Reply["message"])
        /\ (Get(Reply, "success") = "<false>" /\ Get(Reply, "status") # "error"
              /\ ~Truthy(Get(Reply, "error")))
             => ret.body = [status |-> "error",
                            error |-> GetDefault(Reply, "message", "Unknown Unreal error")]
        /\ (Get(Reply, "status") = "error" /\ "error" \notin DOMAIN Reply
              /\ "message" \in DOMAIN Reply)
             => /\ Get(ret.body, "error") = Reply["message"]
                /\ \A k \in DOMAIN Reply : Get(ret.body, k) = Reply[k]

\* C5's case: {"success": false, "error": "X", "message": "M"} came back
\* as {status: "error", error: "X"}
C5_Witness ==
    /\ HasReply
    /\ Get(Reply, "success") = "<false>"
    /\ Get(Reply, "status") # "error"
    /\ Get(Reply, "error") = "X"
    /\ Get(Reply, "message") = "M"
    /\ ret.body = [status |-> "error", error |-> "X"]

\* C6: a Response has status "error" iff the call failed (peer failure in
\* either shape, or a local exception), and then its error field is populated
\* with the failure message: the peer's error, else its message, also when the
\* reply carries an empty or null error and a non-empty message.
C6_ErrorPopulated ==
    (SendReturned /\ ret.kind = "response") =>
        /\ (Get(ret.body, "status") = "error") <=> (exc # "" \/ PeerFailure)
        /\ Get(ret.body, "status") = "error" =>
              /\ "error" \in DOMAIN ret.body
              /\ exc # "" => ret.body["error"] = exc
              /\ (exc = "" /\ Truthy(Get(Reply, "error")))
                    => ret.body["error"] = Reply["error"]
              /\ (exc = "" /\ ~Truthy(Get(Reply, "error")) /\ Truthy(Get(Reply, "message")))
                    => ret.body["error"] = Reply["message"]

\* C7: a reply that is a JSON object with neither status "error" nor
\* success false is returned unchanged: same keys, same values.
C7_PassThrough ==
    (HasReply /\ ~PeerFailure) => ret = Response(Reply)

\* C7's case: a reply with success 0, a message and a result passed through
C7_Witness ==
    /\ HasReply
    /\ ~PeerFailure
    /\ Reply = [success |-> "<0>", message |-> "M", result |-> "R"]
    /\ ret.body = Reply

\* C8: a step whose tool fails at every invocation is invoked exactly
\* MAX_RETRIES + 1 times with MAX_RETRIES sleeps of RETRY_DELAY seconds, and
\* its entry has output null and the last invocation's error; a step whose
\* tool succeeds at invocation k is invoked exactly k times.
C8_RetryBound ==
    \A i \in finished :
        /\ everyFailed[i] =>
              /\ tries[i] = MAX_RETRIES + 1
              /\ slept[i] = MAX_RETRIES * RETRY_DELAY
              /\ results[i].output = <<>>
              /\ results[i].error # "<null>"
              /\ results[i].error = lastError[i]
        /\ succeededAt[i] > 0 => tries[i] = succeededAt[i]

\* C9: the Run Result has one entry per planned step, in plan order, each
\* holding its planned step; every step is attempted whatever happened to the
\* earlier ones, and a step whose tool succeeds has error null.
C9_ForwardProgress ==
    returned =>
        /\ Len(results) = Len(steps)
        /\ \A i \in 1..Len(steps) :
              /\ results[i].step = steps[i]
              /\ tries[i] >= 1
              /\ lastOk[i] => results[i].error = "<null>"

\* C10: tools are invoked one at a time and in plan order: an invocation for
\* step i happens only when every earlier step has its terminal outcome, step
\* i has none yet, and no later step has been started.
C10_Ordering ==
    [][ \A i \in 1..Len(steps) :
          tries'[i] # tries[i] =>
             /\ tries'[i] = tries[i] + 1
             /\ \A j \in (1..Len(steps)) \ {i} : tries'[j] = tries[j]
             /\ \A h \in 1..(i - 1) : h \in finished
             /\ i \notin finished
             /\ \A j \in (i + 1)..Len(steps) : tries[j] = 0 ]_vars

\* C10's case: the second step is started after the first exhausted its retries
C10_Witness ==
    /\ Len(steps) = 2
    /\ tries[1] = MAX_RETRIES + 1
    /\ results # <<>>
    /\ results[1].error # "<null>"
    /\ tries[2] > 0

\* C11: an attempt is treated as failed (retried, or recorded with an error
\* once the retries are exhausted) if and only if the tool raised or returned
\* a mapping with success false or with an error key; any other mapping is
\* recorded as the step's output with error null, without a retry.
C11_Classification ==
    \A i \in 1..Len(steps) :
        /\ i \in finished => (lastOk[i] <=> results[i].error = "<null>")
        /\ (i \notin finished /\ tries[i] > 0) => ~lastOk[i]

\* C12: a step whose tool call ends in a transport failure at every
\* invocation is retried like any tool error, MAX_RETRIES + 1 invocations in
\* all, and ends as an entry with output null and a non-null error; it is
\* never recorded as a successful step.
C12_TransportFailure ==
    \A i \in finished :
        everyTransport[i] =>
            /\ tries[i] = MAX_RETRIES + 1
            /\ results[i].output = <<>>
            /\ results[i].error # "<null>"

\* C13: in every entry of the Run Result exactly one of output and error is
\* non-null: either the output is a mapping and the error is null, or the
\* output is null and the error is a string, and the latter only for a step
\* whose MAX_RETRIES + 1 attempts were all used.
C13_ExactlyOne ==
    \A k \in 1..Len(results) :
        \/ /\ results[k].output # <<>>
           /\ results[k].error = "<null>"
        \/ /\ results[k].output = <<>>
           /\ results[k].error # "<null>"
           /\ tries[k] = MAX_RETRIES + 1

\* C13's case: a returned Run Result with an entry of each kind
C13_Witness ==
    /\ returned
    /\ Len(results) = 2
    /\ results[1].output = <<>>
    /\ results[1].error = "boom"
    /\ results[2].output = <<[success |-> "<true>", message |-> "m"]>>
    /\ results[2].error = "<null>"

\* the capital of each letter of the keyword
CapitalOf ==
    ("d" :> "D") @@ ("u" :> "U") @@ ("n" :> "N") @@ ("g" :> "G") @@
    ("e" :> "E") @@ ("o" :> "O")

\* the prompt has an occurrence of the keyword, in any letter case
MentionsDungeon(p) ==
    \E i \in 1..(Len(p) - 6) :
        \A k \in 1..7 : p[i + k - 1] \in {Dungeon[k], CapitalOf[Dungeon[k]]}

\* C14: plan_steps returns the empty plan for every prompt without a
\* case-insensitive occurrence of "dungeon", whatever the context; and
\* execute_steps on the empty plan returns an empty Run Result, with no tool
\* invoked, no sleep and no exception (the process does not fail).
C14_EmptyPlan ==
    /\ (plan # <<>> /\ ~MentionsDungeon(prompt)) => plan[1] = <<>>
    /\ (plan # <<>> /\ returned /\ steps = <<>>) =>
          /\ results = <<>>
          /\ tries = <<>>
          /\ slept = <<>>
          /\ exitCode \in {-1, 0}

\* C14's case: "dragon" in a project that has assets: the plan is empty,
\* execute_steps has returned the empty Run Result and the process ended with 0
C14_Witness ==
    /\ prompt = <<"d", "r", "a", "g", "o", "n">>
    /\ context.assets # <<>>
    /\ plan = << <<>> >>
    /\ returned
    /\ results = <<>>
    /\ exitCode = 0

\* a step that creates one blueprint asset
CreatesBlueprint(step) ==
    /\ step.tool = "batch_create_assets"
    /\ Len(step.args.assets) = 1
    /\ step.args.assets[1].type = "Blueprint"

\* C15 as stated: for a prompt containing "dungeon" the plan has 9 steps, a
\* level creation followed by 8 blueprint-asset creation steps.
C15_Original ==
    (plan # <<>> /\ Contains(prompt, Dungeon)) =>
        /\ Len(plan[1]) = 9
        /\ plan[1][1].tool = "create_level"
        /\ \A k \in 2..9 : CreatesBlueprint(plan[1][k])

\* C15: for a prompt containing "dungeon" the plan has 2 steps: a level
\* creation, then one batch_create_assets step whose assets are exactly 8
\* blueprints in the order 1 room, 5 monsters, 1 player spawn, 1 exit.
C15_DungeonPlan ==
    (plan # <<>> /\ Contains(prompt, Dungeon)) =>
        /\ Len(plan[1]) = 2
        /\ plan[1][1].tool = "create_level"
        /\ plan[1][2].tool = "batch_create_assets"
        /\ LET assets == plan[1][2].args.assets
           IN /\ Len(assets) = 8
              /\ \A k \in 1..8 : assets[k].type = "Blueprint"
              /\ [k \in 1..8 |-> assets[k].name] =
                    <<"BP_Room", "BP_Monster1", "BP_Monster2", "BP_Monster3",
                      "BP_Monster4", "BP_Monster5", "BP_PlayerSpawn", "BP_Exit">>

\* C15's case: the plan made for "a dungeons"
C15_Witness ==
    /\ prompt = <<"a", " ", "d", "u", "n", "g", "e", "o", "n", "s">>
    /\ plan # <<>>
    /\ Len(plan[1]) = 2
    /\ mpc = "execute"

\* C16: the extended main exits with 1 without a prompt; once execute_steps
\* has returned it exits with 2 if some entry has an error and with 0 if none
\* has, whatever the guideline-ingest hook did; on an empty plan it exits with 0.
C16_ExitCode ==
    (variant = "extended" /\ mpc = "exited") =>
        /\ argc < 2 => exitCode = 1
        /\ (argc >= 2 /\ returned) =>
              exitCode = (IF \E k \in 1..Len(results) : results[k].error # "<null>"
                          THEN 2 ELSE 0)
        /\ (argc >= 2 /\ plan = << <<>> >>) => exitCode = 0

\* C17: a run of the extended main that was given a prompt and has planned
\* has, when the process exits, written exactly one summary file, holding the
\* full Run Result of a finished execute_steps; also when the plan is empty.
C17_SummaryWritten ==
    /\ (variant = "extended" /\ mpc = "exited" /\ argc >= 2 /\ plan # <<>>) =>
          /\ Len(written) = 1
          /\ written[1] = results
    /\ written # <<>> => (returned /\ Len(results) = Len(steps))

\* C18: when the engine rejects a command with an error message, the mapping
\* a pass-through tool hands to the client has a falsy success field (not
\* data.get("success", True), as the tests read it) and an error string
\* holding the engine's error message.
C18_EngineRejection ==
    (HasReply /\ PeerFailure /\ Truthy(Get(Reply, "error"))) =>
        LET data == tool_result(TRUE, ret)
        IN /\ ~Truthy(GetDefault(data, "success", "<true>"))
           /\ GetDefault(data, "error", "") = Reply["error"]

\* C20: connect() never raises; when it fails it returns false and leaves
\* connected false and no socket held; when it succeeds it returns true with
\* connected true and the new socket held, which is then the only socket of
\* the object still open (the one held before was closed).
C20_Connect ==
    (pc = "returned" /\ op = "connect") =>
        /\ ret.kind = "bool"
        /\ ~ret.flag => (~connected /\ socket = "None")
        /\ ret.flag => (connected /\ socket = "connected" /\ fds = 1)

\* C19: every TCP connection the client has opened carries exactly one
\* request/response pair: no probe or other byte is written to it, at most one
\* command is written, and when it is closed without a failure of the exchange
\* exactly one command has been written to it and one response read from it.
C19_OnePairPerConnection ==
    /\ wire.pings = 0
    /\ \A k \in 1..Len(closedNow) :
          /\ closedNow[k].pings = 0
          /\ closedNow[k].cmds <= 1
          /\ ~closedNow[k].failed => (closedNow[k].cmds = 1 /\ closedNow[k].reads = 1)

\* C21: disconnect() never raises and, from any state, ends with no socket
\* held, no socket of the object left open and connected false, also when
\* close() raised; a second disconnect() leaves that state as it is.
C21_DisconnectIdempotent ==
    (pc = "returned" /\ op = "disconnect") =>
        /\ ret.kind # "raise"
        /\ socket = "None"
        /\ ~connected
        /\ fds = 0
        /\ disconnect(Here) = Here

\* C21's case: disconnect() closed a live connection and close() raised
C21_Witness ==
    /\ pc = "returned"
    /\ op = "disconnect"
    /\ closedNow # <<>>
    /\ env.conn = "raises"
    /\ socket = "None"

\* C22: whatever state earlier calls have left (also after tool calls that
\* failed on an unreachable peer), a get_unreal_connection that has to connect
\* and finds the peer reachable returns a connection that is connected, and a
\* send_command that finds the peer reachable opens a fresh connection, returns
\* a Response, and has written its command to that connection unless the send
\* itself failed.
C22_NotSticky ==
    /\ (pc = "returned" /\ op = "get_unreal_connection" /\ env.conn = "ok") =>
          /\ ret = Bool(TRUE)
          /\ handle
          /\ connected
          /\ socket = "connected"
          /\ wire = Fresh
    /\ (SendReturned /\ env.conn = "ok") =>
          /\ ret.kind = "response"
          /\ closedNow # <<>>
          /\ closedNow[Len(closedNow)].pings = 0
          /\ env.send = "ok" => (sent /\ closedNow[Len(closedNow)].cmds = 1)

\* C22's case: after a tool call that failed on an unreachable peer, a tool
\* call has delivered its command and got the peer's reply
C22_Witness ==
    /\ SendReturned
    /\ afterFailure
    /\ env.conn = "ok"
    /\ sent
    /\ HasReply
    /\ ret = Response([status |-> "success", result |-> "R"])

\* the step carries the ambiguity flag
IsAmbiguous(step) == "ambiguous" \in DOMAIN step /\ step.ambiguous

\* C23: once a step has been attempted, it has been passed to
\* prompt_for_ambiguity if and only if it is flagged ambiguous (and then
\* before its first attempt); a step that is not flagged never reaches the hook.
C23_ClarifiedOnce ==
    \A i \in 1..Len(steps) :
        /\ (tries[i] > 0 /\ IsAmbiguous(steps[i])) => i \in clarified
        /\ ~IsAmbiguous(steps[i]) => i \notin clarified

\* C24: with two callers inside send_command on one object, a caller's
\* exchange fails, or gives it the reply to the other's command, only when a
\* caller has closed or replaced the socket the other was using; when that
\* does not happen, each caller ends with the reply to its own command.
C24_ConcurrentUnsafe ==
    \A c \in Callers :
        /\ cresult[c] \in {"error", "foreign"} => \E d \in Callers : interfered[d]
        /\ (cpc[c] = "done" /\ \A d \in Callers : ~interfered[d]) => cresult[c] = "own"

\* C24's case: B replaced the socket A was using and A has read the reply to
\* B's command
C24_Witness ==
    /\ interfered["A"]
    /\ cresult["A"] = "foreign"
    /\ cpc["A"] = "done"

\* the errors the read loop is said to fail with
ReadLoopFailures ==
    {"Connection closed before receiving data", "Timeout receiving Unreal response"}

\* C25: when the bytes accumulated after a chunk do not yet decode and parse
\* (incomplete JSON, or a chunk ending inside a multi-byte character), the loop
\* reads again; receive_full_response fails only on a peer close with nothing
\* accumulated or on a read timeout.
C25_ReadsAgain ==
    (SendReturned /\ recv.kind = "raise" /\ env.ending # "reset" /\ Utf8Ok(Stream))
    => /\ recv.err \in ReadLoopFailures
       /\ recv.err = "Connection closed before receiving data" => env.chunks = <<>>

\* the text holds a JSON value followed by the start of another one
Concatenated(t) ==
    LET i == FirstNotIn(t, 1, Whitespace)
        e == ValueEnd(t, i)
        j == IF e = 0 THEN 0 ELSE FirstNotIn(t, e, Whitespace)
    IN e # 0 /\ j <= Len(t) /\ ValueEnd(t, j) # 0

\* C26: when the peer sends two or more concatenated JSON values, send_command
\* returns an error Response however the bytes are chunked, never a Response
\* built from one of the values.
C26_ConcatenatedFails ==
    (SendReturned /\ recv.kind # "notcalled" /\ Utf8Ok(Stream) /\ Concatenated(Decode(Stream)))
    => /\ ret.kind = "response"
       /\ Get(ret.body, "status") = "error"
       /\ exc # ""

\* the state of step i of the plan: Executing is the inside of one pass of the
\* loop, so between passes a step is Pending, Retrying (a failed attempt was
\* caught and slept on), Success or Failed (its Run Result entry is recorded)
StepState(i) ==
    IF i \in finished /\ i <= Len(results)
    THEN (IF results[i].error = "<null>" THEN "Success" ELSE "Failed")
    ELSE IF tries[i] = 0 THEN "Pending"
    ELSE "Retrying"

\* a pass of the loop executes exactly one step, once
Executes(i) ==
    /\ tries'[i] = tries[i] + 1
    /\ \A j \in 1..Len(steps) : j # i => tries'[j] = tries[j]

\* the moves of step i in one step of the program
StepMoves(i) ==
    /\ StepState(i) \in {"Success", "Failed"}
         => (StepState(i)' = StepState(i) /\ tries'[i] = tries[i])
    /\ StepState(i)' = "Pending" => StepState(i) = "Pending"
    /\ StepState(i)' = "Retrying"
         => \/ (StepState(i) = "Retrying" /\ tries'[i] = tries[i])
            \/ (StepState(i) \in {"Pending", "Retrying"} /\ Executes(i))
    /\ (StepState(i)' \in {"Success", "Failed"} /\ StepState(i)' # StepState(i))
         => (StepState(i) \in {"Pending", "Retrying"} /\ Executes(i))

\* execute_steps has returned with every step in a terminal state
AllTerminal ==
    /\ returned
    /\ \A i \in 1..Len(steps) : StepState(i) \in {"Success", "Failed"}

\* C27: a step moves only Pending -> Executing, Executing -> Success,
\* Executing -> Retrying -> Executing and Executing -> Failed; Success and
\* Failed are terminal, with no further attempt of the step; and when every
\* tool call returns, every step of the plan reaches Success or Failed and
\* execute_steps returns.
C27_StepMachine ==
    /\ [][\A i \in 1..Len(steps) : StepMoves(i)]_vars
    /\ <>AllTerminal

\* C27's case: execute_steps returned a plan in which one step succeeded after
\* a retry and another failed after its last retry
C27_Witness ==
    /\ returned
    /\ \E i, j \in 1..Len(steps) :
        /\ StepState(i) = "Success" /\ tries[i] > 1
        /\ StepState(j) = "Failed" /\ tries[j] = MAX_RETRIES + 1

\* a recv() of the call timed out: every chunk the peer had was read, none of
\* them completed a document or broke the decoding, and the next recv() raised
\* socket.timeout
ReadTimedOut ==
    /\ SendReturned
    /\ recv.kind # "notcalled"
    /\ env.ending = "timeout"
    /\ \A n \in 1..Len(env.chunks) :
        /\ Utf8Ok(Join(env.chunks, n))
        /\ ~JsonLoads(Decode(Join(env.chunks, n))).ok

\* C28: whenever a read in receive_full_response times out, the call fails
\* with "Timeout receiving Unreal response"; the last parse in the timeout
\* handler never succeeds, so no buffer is returned from the timeout path.
C28_TimeoutAlwaysFails ==
    /\ ReadTimedOut => recv = Raised("Timeout receiving Unreal response")
    /\ (SendReturned /\ recv.kind = "data" /\ env.ending = "timeout")
         => \E n \in 1..Len(env.chunks) : recv.data = Join(env.chunks, n)

\* C28's case: the peer sent part of a document and then nothing; the read
\* timed out with bytes accumulated
C28_Witness ==
    /\ ReadTimedOut
    /\ env.chunks # <<>>
    /\ recv = Raised("Timeout receiving Unreal response")
    /\ ret = Response([status |-> "error", error |-> "Timeout receiving Unreal response"])

\* a public operation of the connection object has just returned
OpReturned(ops) == pc = "returned" /\ op \in ops

\* C29: at the return of connect, disconnect and send_command, connected
\* implies that a socket is held; after send_command and after disconnect no
\* socket is held and connected is false; a connection returned by
\* get_unreal_connection is connected and holds a socket.
C29_ConnectionState ==
    /\ OpReturned({"connect", "disconnect", "send_command"})
         => (connected => socket # "None")
    /\ OpReturned({"disconnect", "send_command"})
         => (socket = "None" /\ ~connected)
    /\ (OpReturned({"get_unreal_connection"}) /\ ret = Bool(TRUE))
         => (connected /\ socket = "connected")

\* the assets argument of the batch step the plan consists of
BatchAssets == steps[1].args.assets

\* no element of the assets argument makes the tool raise
AllMappings(assets) == \A k \in 1..Len(assets) : assets[k].type # NotAMapping

\* the creation of the k-th asset of a tool result failed: no reply, an error
\* Response, or an unsupported type
CreationFailed(out, k) ==
    \/ out.results[k].result = <<>>
    \/ Get(out.results[k].result[1], "status") = "error"
    \/ Get(out.results[k].result[1], "success") = "<false>"

=============================================================================
